---- MODULE Spec2Model ----
(***************************************************************************)
(* Model of the session/connection core of the synac GTK client:           *)
(*   src/src/connections.rs  Connection, Connections (the registry), Dial  *)
(*   src/src/messages.rs     Messages (the per-channel timelines)          *)
(*   src/src/main.rs         the callers (poll loop, send-message action)  *)
(*                                                                         *)
(* Specifications:                                                         *)
(*   DialSpec  Connections::connect applied to every input and every       *)
(*             behaviour of the server / transport.                        *)
(*   Spec      the registry: caller threads running execute, foreach,      *)
(*             try_read, insert and remove against the map, and the        *)
(*             background dial threads spawned by Connections::new.        *)
(*   FairSpec  Spec with the fairness the scheduler provides.              *)
(***************************************************************************)
EXTENDS Integers, Sequences, FiniteSets, TLC

VARIABLES
    servers,    \* Connections.servers: address -> Connection (a HashMap)
    lock,       \* owner of the Mutex around servers, or NoThread
    dial,       \* per address: the dial thread behind the JoinHandle and its result
    pc,         \* per caller thread: "idle" | "lock" | "join"
    op,         \* per caller thread: the operation it runs
    arg,        \* per caller thread: the address argument of execute/insert/remove
    cur,        \* per caller thread: the map entry the iteration is at
    todo,       \* per caller thread: the entries the iteration has still to visit
    calls,      \* per caller thread: the callback invocations of the operation so far
    out,        \* the operation that returned in the last step: what it did and returned
    net,        \* packets the servers may still send (bounds the run)
    dargs,      \* DialSpec: the arguments of the last connect call
    dout,       \* DialSpec: what the last connect call returned and did
    store,      \* persisted storage: address -> saved token (servers.token)
    now,        \* the clock the typing entries are stamped with
    current_server, \* Connections.current_server: Option<SocketAddr>
    msgs,       \* MsgSpec: a Messages store (channel -> timeline)
    mout,       \* MsgSpec: the Messages operation of the last step: the store before,
                \* the arguments and the return value
    inserted,   \* MsgSpec: the channels add was called for
    order,      \* MsgSpec: per channel, the ids it holds in the order they came in
    tracker,    \* TypingSpec: the Typing tracker of the current server's session
    label,      \* TypingSpec: the typing summary on display (app.typing)
    sent,       \* SendSpec: what the last send of the send-message handler came to
    inbox,      \* StarveSpec: per session, the packets waiting to be read
    broken,     \* StarveSpec: the sessions whose every read fails
    iter        \* StarveSpec: the order in which the map's values are iterated

vars == <<servers, lock, dial, pc, op, arg, cur, todo, calls, out, net, dargs, dout, store, now,
          current_server, msgs, mout, inserted, order,
          tracker, label, sent, inbox, broken, iter>>

regVars == <<servers, lock, dial, pc, op, arg, cur, todo, calls, out, net, now>>

dialVars == <<dargs, dout, store>>

msgVars == <<msgs, mout, inserted, order>>

uiVars == <<tracker, label, sent, inbox, broken, iter>>

(***************************************************************************)
(* Values                                                                  *)
(***************************************************************************)
Addrs == {"a1", "a2"}

Threads == {"t1", "t2"}

NoThread == "free"

None == "None"

\* Option<usize>::None for a channel
NoChannel == 0

Tokens == {"tok1", "tok2"}

UserIds == {1, 2}

\* What the server answers to a login packet (session.read()? in connect);
\* "IoErr" is the read failing with a transport error.
Responses == {"LoginSuccess", "ErrUnknownUser", "ErrLoginInvalid", "Other", "IoErr"}

IoOutcomes == {"ok", "IoErr"}

(***************************************************************************)
(* Synac::new: a fresh Session Handle                                      *)
(***************************************************************************)
Synac_new(addr, user) ==
    [addr |-> addr, user |-> user, current_channel |-> NoChannel,
     messages |-> <<>>, typing |-> <<>>, nonblocking |-> TRUE]

Ok(synac) == [ok |-> TRUE, synac |-> synac]

Err(e) == [ok |-> FALSE, err |-> e]

(***************************************************************************)
(* Connections::connect (Dial).  env is what the transport and the server  *)
(* do during the call:                                                     *)
(*   new      Session::new(addr, hash)?                                    *)
(*   tokSend  session.login_with_token(..)?                                *)
(*   tokResp  session.read()? after the token login                        *)
(*   tokNb    session.set_nonblocking(true)? on the token path             *)
(*   pwSend, pwResp, pwNb   the same on the password path                  *)
(*   id, issued  login.id and login.token of a LoginSuccess                *)
(* token is None or a token; password is what the password provider        *)
(* returns when it is called: None or "pw".                                *)
(* The result records the returned Result, how often the provider was      *)
(* called (asked) and the tokens written to storage (writes).              *)
(***************************************************************************)
Env ==
    [new : IoOutcomes, tokSend : IoOutcomes, tokResp : Responses, tokNb : IoOutcomes,
     pwSend : IoOutcomes, pwResp : Responses, pwNb : IoOutcomes,
     id : {1}, issued : Tokens]

Returned(result, asked, writes) == [result |-> result, asked |-> asked, writes |-> writes]

\* connect_password without the UPDATE of line 133
connect_password_no_write(addr, password, env) ==
    IF password # None
    THEN IF env.pwSend = "IoErr" \/ env.pwResp = "IoErr" THEN Returned(Err("Io"), 1, <<>>)
         ELSE IF env.pwResp = "LoginSuccess"
              THEN IF env.pwNb = "IoErr" THEN Returned(Err("Io"), 1, <<>>)
                   ELSE Returned(Ok(Synac_new(addr, env.id)), 1, <<>>)
         ELSE IF env.pwResp = "ErrLoginInvalid"
              THEN Returned(Err("InvalidPassword"), 1, <<>>)
         ELSE Returned(Err("InvalidPacket"), 1, <<>>)
    ELSE Returned(Err("InvalidToken"), 1, <<>>)

\* connect_password reporting a rejected password as the final InvalidToken
connect_password_one_error(addr, password, env) ==
    IF password # None
    THEN IF env.pwSend = "IoErr" \/ env.pwResp = "IoErr" THEN Returned(Err("Io"), 1, <<>>)
         ELSE IF env.pwResp = "LoginSuccess"
              THEN IF env.pwNb = "IoErr" THEN Returned(Err("Io"), 1, <<env.issued>>)
                   ELSE Returned(Ok(Synac_new(addr, env.id)), 1, <<env.issued>>)
         ELSE IF env.pwResp = "ErrLoginInvalid"
              THEN Returned(Err("InvalidToken"), 1, <<>>)
         ELSE Returned(Err("InvalidPacket"), 1, <<>>)
    ELSE Returned(Err("InvalidToken"), 1, <<>>)

\* lines 129-143: the password path and the final InvalidToken
connect_password(addr, password, env) ==
    IF password # None
    THEN IF env.pwSend = "IoErr" THEN Returned(Err("Io"), 1, <<>>)
         ELSE IF env.pwResp = "IoErr" THEN Returned(Err("Io"), 1, <<>>)
         ELSE IF env.pwResp = "LoginSuccess"
              THEN IF env.pwNb = "IoErr"
                   THEN Returned(Err("Io"), 1, <<env.issued>>)
                   ELSE Returned(Ok(Synac_new(addr, env.id)), 1, <<env.issued>>)
         ELSE IF env.pwResp = "ErrLoginInvalid"
              THEN Returned(Err("InvalidPassword"), 1, <<>>)
         ELSE Returned(Err("InvalidPacket"), 1, <<>>)
    ELSE Returned(Err("InvalidToken"), 1, <<>>)

\* connect that never tries the saved token
connect_skips_token(addr, token, password, env) ==
    IF env.new = "IoErr" THEN Returned(Err("Io"), 0, <<>>)
    ELSE connect_password(addr, password, env)

\* lines 111-128: Session::new and the token path
connect(addr, token, password, env) ==
    IF env.new = "IoErr" THEN Returned(Err("Io"), 0, <<>>)
    ELSE IF token # None
    THEN IF env.tokSend = "IoErr" THEN Returned(Err("Io"), 0, <<>>)
         ELSE IF env.tokResp = "IoErr" THEN Returned(Err("Io"), 0, <<>>)
         ELSE IF env.tokResp = "LoginSuccess"
              THEN IF env.tokNb = "IoErr"
                   THEN Returned(Err("Io"), 0, <<>>)
                   ELSE Returned(Ok(Synac_new(addr, env.id)), 0, <<>>)
         ELSE IF env.tokResp \in {"ErrUnknownUser", "ErrLoginInvalid"}
              THEN connect_password(addr, password, env)
         ELSE Returned(Err("InvalidPacket"), 0, <<>>)
    ELSE connect_password(addr, password, env)

(***************************************************************************)
(* DialSpec: one call of connect for a persisted server, with any token,   *)
(* any provider answer and any behaviour of the transport and the server.  *)
(* The UPDATE of line 133 is write-through to the row of the address.      *)
(***************************************************************************)
NoDial == [st |-> "none"]

write_through(rows, addr, writes) ==
    IF writes = <<>> THEN rows ELSE [rows EXCEPT ![addr] = writes[Len(writes)]]

DialCall(addr, token, password, env) ==
    /\ dout.st = "none"
    /\ addr \in DOMAIN store
    /\ LET r == connect(addr, token, password, env)
       IN /\ dargs' = [st |-> "called", addr |-> addr, token |-> token,
                       password |-> password, env |-> env, before |-> store]
          /\ dout' = [st |-> "returned", result |-> r.result, asked |-> r.asked,
                      writes |-> r.writes]
          /\ store' = write_through(store, addr, r.writes)
    /\ UNCHANGED <<regVars, current_server, msgVars, uiVars>>

(***************************************************************************)
(* Messages (src/src/messages.rs): channel -> timeline, a HashMap whose    *)
(* keys are the channels that have a timeline.  Indices are 0-based as in  *)
(* the source; tl[i + 1] is the source's messages[i].                      *)
(***************************************************************************)
Channels == {1, 2}

Timeline(messages, channel) ==
    IF channel \in DOMAIN messages THEN messages[channel] ELSE <<>>

\* slice::binary_search_by_key of the standard library the crate was built
\* with: halve [base, base + size) keeping s[base] <= key, then compare once.
RECURSIVE bsearch_loop(_, _, _, _)
bsearch_loop(tl, key, base, size) ==
    IF size <= 1 THEN base
    ELSE LET half == size \div 2
             mid  == base + half
         IN bsearch_loop(tl, key, IF tl[mid + 1].timestamp > key THEN base ELSE mid,
                         size - half)

binary_search_by_key(tl, key) ==
    IF Len(tl) = 0 THEN [found |-> FALSE, i |-> 0]
    ELSE LET base == bsearch_loop(tl, key, 0, Len(tl))
         IN IF tl[base + 1].timestamp = key THEN [found |-> TRUE, i |-> base]
            ELSE [found |-> FALSE,
                  i |-> base + (IF tl[base + 1].timestamp < key THEN 1 ELSE 0)]

\* add that scans on from the entry the binary search hit, not from the
\* first entry of the run
scan_back_stays(tl, ts, i) == i

\* lines 22-24: back to the first entry of the run of equal timestamps
RECURSIVE scan_back(_, _, _)
scan_back(tl, ts, i) ==
    IF i > 0 /\ tl[i].timestamp = ts THEN scan_back(tl, ts, i - 1) ELSE i

\* add that inserts in front of the run when its first entry has another id
scan_forward_first_only(tl, ts, id, i) ==
    IF i < Len(tl) /\ tl[i + 1].id = id THEN [replace |-> TRUE, i |-> i]
    ELSE [replace |-> FALSE, i |-> i]

\* lines 25-35: forward over the run; [replace |-> TRUE] is the early return
RECURSIVE scan_forward(_, _, _, _)
scan_forward(tl, ts, id, i) ==
    IF i < Len(tl) /\ tl[i + 1].id = id THEN [replace |-> TRUE, i |-> i]
    ELSE IF ~(i < Len(tl) /\ tl[i + 1].timestamp = ts) THEN [replace |-> FALSE, i |-> i]
    ELSE scan_forward(tl, ts, id, i + 1)

\* add that pushes the message at the end of the timeline
vec_insert_back(tl, i, msg) == Append(tl, msg)

\* Vec::insert(i, msg)
vec_insert(tl, i, msg) ==
    SubSeq(tl, 1, i) \o <<msg>> \o SubSeq(tl, i + 1, Len(tl))

\* Vec::remove(i)
vec_remove(tl, i) ==
    SubSeq(tl, 1, i) \o SubSeq(tl, i + 2, Len(tl))

with_timeline(messages, channel, tl) ==
    [c \in DOMAIN messages \cup {channel} |-> IF c = channel THEN tl ELSE messages[c]]

\* Messages::add
add(messages, msg) ==
    LET tl == Timeline(messages, msg.channel)
        bs == binary_search_by_key(tl, msg.timestamp)
    IN IF ~bs.found THEN with_timeline(messages, msg.channel, vec_insert(tl, bs.i, msg))
       ELSE LET ts    == tl[bs.i + 1].timestamp
                first == scan_back(tl, ts, bs.i)
                fw    == scan_forward(tl, ts, msg.id, first)
            IN IF fw.replace
               THEN with_timeline(messages, msg.channel, [tl EXCEPT ![fw.i + 1] = msg])
               ELSE with_timeline(messages, msg.channel, vec_insert(tl, fw.i, msg))

\* iter().position(|msg| msg.id == id): 0-based, or -1 for None
position(tl, id) ==
    IF \E k \in 1..Len(tl) : tl[k].id = id
    THEN (CHOOSE k \in 1..Len(tl) : tl[k].id = id /\ \A j \in 1..(k - 1) : tl[j].id # id) - 1
    ELSE -1

\* remove that takes the id out of every timeline that holds it
remove_everywhere(messages, id) ==
    LET hits == {c \in DOMAIN messages : position(messages[c], id) >= 0}
    IN IF hits = {} THEN {[messages |-> messages, channel |-> NoChannel]}
       ELSE {[messages |-> [x \in DOMAIN messages |->
                              IF x \in hits
                              THEN vec_remove(messages[x], position(messages[x], id))
                              ELSE messages[x]],
              channel |-> c] : c \in hits}

\* remove that drops the timeline it has emptied
remove_drops_empty(messages, id) ==
    LET hits == {c \in DOMAIN messages : position(messages[c], id) >= 0}
    IN IF hits = {} THEN {[messages |-> messages, channel |-> NoChannel]}
       ELSE {[messages |-> IF Len(messages[c]) = 1
                           THEN [x \in DOMAIN messages \ {c} |-> messages[x]]
                           ELSE with_timeline(messages, c,
                                    vec_remove(messages[c], position(messages[c], id))),
              channel |-> c] : c \in hits}

\* Messages::remove: the HashMap is walked in an unspecified order, so when the
\* id is in several channels any of them may be the one found first.  The set
\* of possible outcomes [messages, channel].
remove(messages, id) ==
    LET hits == {c \in DOMAIN messages : position(messages[c], id) >= 0}
    IN IF hits = {} THEN {[messages |-> messages, channel |-> NoChannel]}
       ELSE {[messages |-> with_timeline(messages, c,
                               vec_remove(messages[c], position(messages[c], id))),
              channel |-> c] : c \in hits}

\* Messages::get and Messages::has
get(messages, channel) == Timeline(messages, channel)

has(messages, channel) == channel \in DOMAIN messages

(***************************************************************************)
(* Typing::insert (typing.rs is not among the sources): the entry of the   *)
(* user is overwritten with the channel and the current time.              *)
(***************************************************************************)
typing_insert(typing, author, channel, time) ==
    [u \in DOMAIN typing \cup {author} |->
        IF u = author THEN [channel |-> channel, time |-> time] ELSE typing[u]]

\* The timeout after which a typing entry is expired (common::TYPING_TIMEOUT),
\* in ticks of the clock
TypingTimeout == 2

\* Typing::check that reports an entry however old it is
typing_check_no_expiry(typing, channel, time) ==
    {u \in DOMAIN typing : typing[u].channel = channel}

\* Typing::check (typing.rs is not among the sources): the users with an entry
\* for the channel that is younger than the timeout; the empty set is None.
typing_check(typing, channel, time) ==
    {u \in DOMAIN typing :
        typing[u].channel = channel /\ time - typing[u].time < TypingTimeout}

(***************************************************************************)
(* Connection (connections.rs:51-69)                                       *)
(***************************************************************************)
Connecting(handle) == [kind |-> "Connecting", handle |-> handle]

Connected(result) == [kind |-> "Connected", result |-> result]

\* The dial thread behind a JoinHandle has finished: handle.join() returns.
Finished(handle) == dial[handle].st = "finished"

\* Connection::join returns without waiting
CanJoin(conn) == IF conn.kind = "Connected" THEN TRUE ELSE Finished(conn.handle)

\* join that loses the result of a Connection it finds already Connected
join_forgets(conn) ==
    IF conn.kind = "Connecting" THEN Connected(dial[conn.handle].result)
    ELSE Connected(Err("Io"))

\* Connection::join: the value the Connection holds afterwards
join(conn) ==
    IF conn.kind = "Connecting" THEN Connected(dial[conn.handle].result) ELSE conn

\* handle.join() takes the thread's result: the dial threads after conn was joined
joined_dial(conn) ==
    IF conn.kind = "Connecting" THEN [dial EXCEPT ![conn.handle] = [st |-> "joined"]]
    ELSE dial

\* The entry of address a is dropped from the map (overwritten or removed):
\* dropping a JoinHandle detaches its thread, which runs on unobserved.
dropped_dial(a) ==
    IF a \in DOMAIN servers /\ servers[a].kind = "Connecting"
    THEN [dial EXCEPT ![servers[a].handle] =
            IF @.st = "running" THEN [st |-> "detached"] ELSE [st |-> "exited"]]
    ELSE dial

(***************************************************************************)
(* The packets a session may deliver and what try_read does with one       *)
(* (connections.rs:183-198).                                               *)
(***************************************************************************)
MsgIds == {1, 2}

Timestamps == {1, 2}

Texts == {"x", "y"}

Messages == [id : MsgIds, channel : Channels, timestamp : Timestamps, text : Texts]

Packets ==
    [type : {"MessageReceive"}, inner : Messages]
      \cup [type : {"MessageDeleteReceive"}, id : MsgIds]
      \cup [type : {"TypingReceive"}, author : UserIds, channel : Channels]
      \cup [type : {"ChannelReceive"}]

\* try_read that records the typing of the local user as well
handle_packet_own_typing(synac, packet, time) ==
    IF packet.type = "MessageReceive"
    THEN {[synac |-> [synac EXCEPT !.messages = add(synac.messages, packet.inner)],
           channel |-> packet.inner.channel]}
    ELSE IF packet.type = "MessageDeleteReceive"
    THEN {[synac |-> [synac EXCEPT !.messages = r.messages], channel |-> r.channel] :
            r \in remove(synac.messages, packet.id)}
    ELSE IF packet.type = "TypingReceive"
    THEN {[synac |-> [synac EXCEPT !.typing =
                        typing_insert(synac.typing, packet.author, packet.channel, time)],
           channel |-> packet.channel]}
    ELSE {[synac |-> synac, channel |-> NoChannel]}

\* The set of possible [synac, channel]: the handle after the packet was
\* applied and the affected channel handed to the callback.
handle_packet(synac, packet, time) ==
    IF packet.type = "MessageReceive"
    THEN {[synac |-> [synac EXCEPT !.messages = add(synac.messages, packet.inner)],
           channel |-> packet.inner.channel]}
    ELSE IF packet.type = "MessageDeleteReceive"
    THEN {[synac |-> [synac EXCEPT !.messages = r.messages], channel |-> r.channel] :
            r \in remove(synac.messages, packet.id)}
    ELSE IF packet.type = "TypingReceive" /\ packet.author # synac.user
    THEN {[synac |-> [synac EXCEPT !.typing =
                        typing_insert(synac.typing, packet.author, packet.channel, time)],
           channel |-> packet.channel]}
    ELSE {[synac |-> synac, channel |-> NoChannel]}

(***************************************************************************)
(* The registry's operations, one caller thread t at a time.  An operation *)
(* is called (pc "lock": waiting for the map's Mutex), takes the Mutex,    *)
(* and visits entries (pc "join": holding the Mutex, about to join the     *)
(* entry cur[t]); it returns by going back to "idle".  The callbacks are   *)
(* the caller's: the model records each invocation with its arguments in   *)
(* calls[t], and the step in which an operation returns leaves in out what *)
(* the caller has then seen: the operation, its callback invocations and   *)
(* its return value.                                                       *)
(***************************************************************************)
Unit == "()"

\* no handle is passed (every operation but insert)
NoSynac == [addr |-> None]

NoArg == [addr |-> None, synac |-> NoSynac]

NoOut == [op |-> None]

\* t calls operation o and waits for the Mutex (servers.lock())
Begin(t, o, a, synac) ==
    /\ pc[t] = "idle"
    /\ pc' = [pc EXCEPT ![t] = "lock"]
    /\ op' = [op EXCEPT ![t] = o]
    /\ arg' = [arg EXCEPT ![t] = [addr |-> a, synac |-> synac]]
    /\ out' = NoOut
    /\ UNCHANGED <<servers, lock, dial, cur, todo, calls, net, now, dialVars, current_server, msgVars, uiVars>>

\* The operation o of t returns r after the callback invocations cs; a
\* MutexGuard it holds is dropped.
Return(t, o, a, cs, r) ==
    /\ pc' = [pc EXCEPT ![t] = "idle"]
    /\ op' = [op EXCEPT ![t] = None]
    /\ arg' = [arg EXCEPT ![t] = NoArg]
    /\ cur' = [cur EXCEPT ![t] = None]
    /\ todo' = [todo EXCEPT ![t] = {}]
    /\ calls' = [calls EXCEPT ![t] = <<>>]
    /\ lock' = NoThread
    /\ out' = [op |-> o, thread |-> t, addr |-> a, calls |-> cs, ret |-> r]

\* values_mut(): the iteration of operation o goes on to some entry not yet
\* visited, after the callback invocations cs
Advance(t, o, rest, cs) ==
    \E n \in rest :
        /\ pc' = [pc EXCEPT ![t] = "join"]
        /\ op' = [op EXCEPT ![t] = o]
        /\ cur' = [cur EXCEPT ![t] = n]
        /\ todo' = [todo EXCEPT ![t] = rest \ {n}]
        /\ calls' = [calls EXCEPT ![t] = cs]
        /\ lock' = t
        /\ out' = NoOut
        /\ UNCHANGED arg

\* The iteration of o has visited an entry: on to the next, or return r
Continue(t, o, cs, r) ==
    IF todo[t] # {} THEN Advance(t, o, todo[t], cs) ELSE Return(t, o, None, cs, r)

\* The thread waits in JoinHandle::join for a dial that has not finished.
Blocked(t) == pc[t] = "join" /\ ~CanJoin(servers[cur[t]])

\* What the transport and the server may do during an unattended dial: the
\* provider returns None, so no password login is ever sent.
UnattendedEnv ==
    [new : IoOutcomes, tokSend : IoOutcomes, tokResp : Responses, tokNb : IoOutcomes,
     pwSend : {"ok"}, pwResp : {"Other"}, pwNb : {"ok"}, id : {1}, issued : {"tok1"}]

\* A dial thread that takes its address out of the map when the dial fails
DialFinish_drops_failed(a) ==
    /\ dial[a].st \in {"running", "detached"}
    /\ \E r \in {connect(a, store[a], None, env).result : env \in UnattendedEnv} :
         /\ dial' = [dial EXCEPT ![a] = IF dial[a].st = "running"
                                        THEN [st |-> "finished", result |-> r]
                                        ELSE [st |-> "exited"]]
         /\ servers' = IF r.ok THEN servers
                       ELSE [x \in DOMAIN servers \ {a} |-> servers[x]]
    /\ out' = NoOut
    /\ UNCHANGED <<lock, pc, op, arg, cur, todo, calls, net, now, dialVars, current_server, msgVars, uiVars>>

\* A dial thread that needs the map's Mutex to hand over its result
DialFinish_needs_lock(a) ==
    /\ lock = NoThread
    /\ dial[a].st \in {"running", "detached"}
    /\ \E r \in {connect(a, store[a], None, env).result : env \in UnattendedEnv} :
         dial' = [dial EXCEPT ![a] = IF dial[a].st = "running"
                                     THEN [st |-> "finished", result |-> r]
                                     ELSE [st |-> "exited"]]
    /\ out' = NoOut
    /\ UNCHANGED <<servers, lock, pc, op, arg, cur, todo, calls, net, now, dialVars, current_server, msgVars, uiVars>>

\* A background dial thread of Connections::new (lines 102-105) finishes:
\* connect with the saved token and a provider that returns None.
DialFinish(a) ==
    /\ dial[a].st \in {"running", "detached"}
    /\ \E r \in {connect(a, store[a], None, env).result : env \in UnattendedEnv} :
         dial' = [dial EXCEPT ![a] = IF dial[a].st = "running"
                                     THEN [st |-> "finished", result |-> r]
                                     ELSE [st |-> "exited"]]
    /\ out' = NoOut
    /\ UNCHANGED <<servers, lock, pc, op, arg, cur, todo, calls, net, now, dialVars, current_server, msgVars, uiVars>>

\* Connections::execute is called (line 159: servers.lock() not yet acquired)
ExecuteCall(t, a) == Begin(t, "execute", a, NoSynac)

\* execute that goes on to the entry without owning the Mutex
ExecuteLock_no_mutex(t) ==
    /\ pc[t] = "lock" /\ op[t] = "execute"
    /\ IF arg[t].addr \in DOMAIN servers
       THEN /\ lock' = t
            /\ pc' = [pc EXCEPT ![t] = "join"]
            /\ cur' = [cur EXCEPT ![t] = arg[t].addr]
            /\ out' = NoOut
            /\ UNCHANGED <<op, arg, todo, calls>>
       ELSE Return(t, "execute", arg[t].addr, <<>>, Unit)
    /\ UNCHANGED <<servers, dial, net, now, dialVars, current_server, msgVars, uiVars>>

\* lines 159-162: the lock is acquired and the address looked up
ExecuteLock(t) ==
    /\ pc[t] = "lock" /\ op[t] = "execute"
    /\ lock = NoThread
    /\ IF arg[t].addr \in DOMAIN servers
       THEN /\ lock' = t
            /\ pc' = [pc EXCEPT ![t] = "join"]
            /\ cur' = [cur EXCEPT ![t] = arg[t].addr]
            /\ out' = NoOut
            /\ UNCHANGED <<op, arg, todo, calls>>
       ELSE Return(t, "execute", arg[t].addr, <<>>, Unit)
    /\ UNCHANGED <<servers, dial, net, now, dialVars, current_server, msgVars, uiVars>>

\* execute that calls back only for a successful dial
ExecuteJoin_skips_error(t) ==
    /\ pc[t] = "join" /\ op[t] = "execute"
    /\ CanJoin(servers[cur[t]])
    /\ LET joined == join(servers[cur[t]])
       IN /\ servers' = [servers EXCEPT ![cur[t]] = joined]
          /\ dial' = joined_dial(servers[cur[t]])
          /\ Return(t, "execute", arg[t].addr,
                    IF joined.result.ok THEN <<[addr |-> cur[t], res |-> joined.result]>>
                    ELSE <<>>, Unit)
    /\ UNCHANGED <<net, now, dialVars, current_server, msgVars, uiVars>>

\* line 163: callback(inner.join())
ExecuteJoin(t) ==
    /\ pc[t] = "join" /\ op[t] = "execute"
    /\ CanJoin(servers[cur[t]])
    /\ LET joined == join(servers[cur[t]])
       IN /\ servers' = [servers EXCEPT ![cur[t]] = joined]
          /\ dial' = joined_dial(servers[cur[t]])
          /\ Return(t, "execute", arg[t].addr,
                    <<[addr |-> cur[t], res |-> joined.result]>>, Unit)
    /\ UNCHANGED <<net, now, dialVars, current_server, msgVars, uiVars>>

\* Connections::foreach is called
ForEachCall(t) == Begin(t, "foreach", None, NoSynac)

\* lines 169-170
ForEachLock(t) ==
    /\ pc[t] = "lock" /\ op[t] = "foreach"
    /\ lock = NoThread
    /\ IF DOMAIN servers # {}
       THEN Advance(t, "foreach", DOMAIN servers, <<>>)
       ELSE Return(t, "foreach", None, <<>>, Unit)
    /\ UNCHANGED <<servers, dial, net, now, dialVars, current_server, msgVars, uiVars>>

\* foreach that passes over a Connecting entry without joining it
ForEachJoin_skips_pending(t) ==
    /\ pc[t] = "join" /\ op[t] = "foreach"
    /\ LET conn == servers[cur[t]]
       IN Continue(t, "foreach",
                   IF conn.kind = "Connecting" THEN calls[t]
                   ELSE IF conn.result.ok
                   THEN Append(calls[t], [addr |-> cur[t], res |-> conn.result])
                   ELSE calls[t],
                   Unit)
    /\ UNCHANGED <<servers, dial, net, now, dialVars, current_server, msgVars, uiVars>>

\* lines 171-173, one entry
ForEachJoin(t) ==
    /\ pc[t] = "join" /\ op[t] = "foreach"
    /\ CanJoin(servers[cur[t]])
    /\ LET joined == join(servers[cur[t]])
       IN /\ servers' = [servers EXCEPT ![cur[t]] = joined]
          /\ dial' = joined_dial(servers[cur[t]])
          /\ Continue(t, "foreach",
                      IF joined.result.ok
                      THEN Append(calls[t], [addr |-> cur[t], res |-> joined.result])
                      ELSE calls[t],
                      Unit)
    /\ UNCHANGED <<net, now, dialVars, current_server, msgVars, uiVars>>

\* Connections::insert is called with a freshly authenticated handle
InsertCall(t, a, user) == Begin(t, "insert", a, Synac_new(a, user))

\* insert that keeps the entry the address already has (entry().or_insert)
InsertLock_keeps_entry(t) ==
    /\ pc[t] = "lock" /\ op[t] = "insert"
    /\ lock = NoThread
    /\ servers' = [a \in DOMAIN servers \cup {arg[t].addr} |->
                     IF a \in DOMAIN servers THEN servers[a]
                     ELSE Connected(Ok(arg[t].synac))]
    /\ UNCHANGED dial
    /\ Return(t, "insert", arg[t].addr, <<>>, Unit)
    /\ UNCHANGED <<net, now, dialVars, current_server, msgVars, uiVars>>

\* lines 146-147
InsertLock(t) ==
    /\ pc[t] = "lock" /\ op[t] = "insert"
    /\ lock = NoThread
    /\ servers' = [a \in DOMAIN servers \cup {arg[t].addr} |->
                     IF a = arg[t].addr THEN Connected(Ok(arg[t].synac)) ELSE servers[a]]
    /\ dial' = dropped_dial(arg[t].addr)
    /\ Return(t, "insert", arg[t].addr, <<>>, Unit)
    /\ UNCHANGED <<net, now, dialVars, current_server, msgVars, uiVars>>

\* Connections::remove is called
RemoveCall(t, a) == Begin(t, "remove", a, NoSynac)

\* remove that also clears a selection naming the removed address
RemoveLock_clears_current(t) ==
    /\ pc[t] = "lock" /\ op[t] = "remove"
    /\ lock = NoThread
    /\ servers' = [a \in DOMAIN servers \ {arg[t].addr} |-> servers[a]]
    /\ dial' = dropped_dial(arg[t].addr)
    /\ current_server' = IF current_server = arg[t].addr THEN None ELSE current_server
    /\ Return(t, "remove", arg[t].addr, <<>>, Unit)
    /\ UNCHANGED <<net, now, dialVars, msgVars, uiVars>>

\* lines 150-151
RemoveLock(t) ==
    /\ pc[t] = "lock" /\ op[t] = "remove"
    /\ lock = NoThread
    /\ servers' = [a \in DOMAIN servers \ {arg[t].addr} |-> servers[a]]
    /\ dial' = dropped_dial(arg[t].addr)
    /\ Return(t, "remove", arg[t].addr, <<>>, Unit)
    /\ UNCHANGED <<net, now, dialVars, current_server, msgVars, uiVars>>

\* try_read taking the Mutex with lock() instead of try_lock()
TryReadCall_blocking(t) ==
    /\ pc[t] = "idle"
    /\ lock = NoThread
    /\ IF DOMAIN servers # {}
       THEN Advance(t, "try_read", DOMAIN servers, <<>>)
       ELSE /\ out' = [op |-> "try_read", thread |-> t, addr |-> None,
                       calls |-> <<>>, ret |-> "Ok"]
            /\ UNCHANGED <<lock, pc, op, arg, cur, todo, calls>>
    /\ UNCHANGED <<servers, dial, net, now, dialVars, current_server, msgVars, uiVars>>

\* Connections::try_read is called, line 179: try_lock() fails when the Mutex
\* is held, and the function returns Ok(()) at once.
TryReadCall(t) ==
    /\ pc[t] = "idle"
    /\ IF lock = NoThread /\ DOMAIN servers # {}
       THEN Advance(t, "try_read", DOMAIN servers, <<>>)
       ELSE /\ out' = [op |-> "try_read", thread |-> t, addr |-> None,
                       calls |-> <<>>, ret |-> "Ok"]
            /\ UNCHANGED <<lock, pc, op, arg, cur, todo, calls>>
    /\ UNCHANGED <<servers, dial, net, now, dialVars, current_server, msgVars, uiVars>>

\* What listener.try_read returns on a session: no packet, a packet (while
\* the servers have packets left to send) or a transport error.
ReadOutcomes ==
    {[kind |-> "none"], [kind |-> "err"]}
      \cup (IF net.left > 0 THEN {[kind |-> "packet", packet |-> p] : p \in net.packets}
            ELSE {})

\* try_read that takes the session whose read failed out of the map
TryReadJoin_drops_failed(t) ==
    /\ pc[t] = "join" /\ op[t] = "try_read"
    /\ CanJoin(servers[cur[t]])
    /\ LET a      == cur[t]
           joined == join(servers[a])
       IN IF ~joined.result.ok
          THEN /\ servers' = [servers EXCEPT ![a] = joined]
               /\ Continue(t, "try_read", calls[t], "Ok")
               /\ UNCHANGED net
          ELSE \E read \in ReadOutcomes :
                 IF read.kind = "err"
                 THEN /\ servers' = [x \in DOMAIN servers \ {a} |-> servers[x]]
                      /\ Return(t, "try_read", None, calls[t], "Err")
                      /\ UNCHANGED net
                 ELSE IF read.kind = "none"
                 THEN /\ servers' = [servers EXCEPT ![a] = joined]
                      /\ Continue(t, "try_read", calls[t], "Ok")
                      /\ UNCHANGED net
                 ELSE \E h \in handle_packet(joined.result.synac, read.packet, now) :
                      /\ servers' = [servers EXCEPT ![a] = Connected(Ok(h.synac))]
                      /\ net' = [net EXCEPT !.left = @ - 1]
                      /\ Continue(t, "try_read",
                                  Append(calls[t], [addr |-> a, packet |-> read.packet,
                                                    channel |-> h.channel]),
                                  "Ok")
    /\ dial' = joined_dial(servers[cur[t]])
    /\ UNCHANGED <<now, dialVars, current_server, msgVars, uiVars>>

\* lines 181-200, one entry
TryReadJoin(t) ==
    /\ pc[t] = "join" /\ op[t] = "try_read"
    /\ CanJoin(servers[cur[t]])
    /\ LET a      == cur[t]
           joined == join(servers[a])
       IN IF ~joined.result.ok
          THEN /\ servers' = [servers EXCEPT ![a] = joined]
               /\ Continue(t, "try_read", calls[t], "Ok")
               /\ UNCHANGED net
          ELSE \E read \in ReadOutcomes :
                 IF read.kind = "err"
                 THEN /\ servers' = [servers EXCEPT ![a] = joined]
                      /\ Return(t, "try_read", None, calls[t], "Err")
                      /\ UNCHANGED net
                 ELSE IF read.kind = "none"
                 THEN /\ servers' = [servers EXCEPT ![a] = joined]
                      /\ Continue(t, "try_read", calls[t], "Ok")
                      /\ UNCHANGED net
                 ELSE \E h \in handle_packet(joined.result.synac, read.packet, now) :
                      /\ servers' = [servers EXCEPT ![a] = Connected(Ok(h.synac))]
                      /\ net' = [net EXCEPT !.left = @ - 1]
                      /\ Continue(t, "try_read",
                                  Append(calls[t], [addr |-> a, packet |-> read.packet,
                                                    channel |-> h.channel]),
                                  "Ok")
    /\ dial' = joined_dial(servers[cur[t]])
    /\ UNCHANGED <<now, dialVars, current_server, msgVars, uiVars>>

(***************************************************************************)
(* A Messages store on its own (Messages::new, then add and remove called  *)
(* with any arguments, as try_read calls them for the packets of a server).*)
(* inserted and order record the history the store itself does not keep.   *)
(***************************************************************************)
MaxStored == 4

NoMsgOp == [op |-> None]

\* Number of entries in all timelines
RECURSIVE Stored(_)
Stored(messages) ==
    IF DOMAIN messages = {} THEN 0
    ELSE LET c == CHOOSE x \in DOMAIN messages : TRUE
         IN Len(messages[c]) + Stored([x \in DOMAIN messages \ {c} |-> messages[x]])

HasId(tl, id) == \E k \in 1..Len(tl) : tl[k].id = id

\* the sequence ids without id
RECURSIVE Without(_, _)
Without(ids, id) ==
    IF ids = <<>> THEN <<>>
    ELSE IF Head(ids) = id THEN Without(Tail(ids), id)
    ELSE <<Head(ids)>> \o Without(Tail(ids), id)

\* Messages::new
MessagesNew ==
    /\ msgs = <<>>
    /\ mout = NoMsgOp
    /\ inserted = {}
    /\ order = [c \in Channels |-> <<>>]

\* The label app.typing: the users its text names (none: the empty text) and
\* what the last typing check of the poll cycle returned
NoLabel == [text |-> {}, seen |-> "never"]

NoSend == [st |-> "none"]

\* Nothing typed, nothing sent, no packet waiting
UiIdle ==
    /\ tracker = <<>>
    /\ label = NoLabel
    /\ sent = NoSend
    /\ inbox = <<>>
    /\ broken = {}
    /\ iter = <<>>

\* messages.add(msg)
MsgAdd(msg) ==
    /\ Stored(add(msgs, msg)) <= MaxStored
    /\ msgs' = add(msgs, msg)
    /\ mout' = [op |-> "add", before |-> msgs, msg |-> msg]
    /\ inserted' = inserted \cup {msg.channel}
    /\ order' = IF HasId(Timeline(msgs, msg.channel), msg.id) THEN order
                ELSE [order EXCEPT ![msg.channel] = Append(@, msg.id)]
    /\ UNCHANGED <<regVars, current_server, dialVars, uiVars>>

\* messages.remove(id)
MsgRemove(id) ==
    /\ \E r \in remove(msgs, id) :
         /\ msgs' = r.messages
         /\ mout' = [op |-> "remove", before |-> msgs, id |-> id, ret |-> r.channel]
         /\ order' = IF r.channel = NoChannel \/ HasId(Timeline(r.messages, r.channel), id)
                     THEN order
                     ELSE [order EXCEPT ![r.channel] = Without(@, id)]
    /\ UNCHANGED <<inserted, regVars, current_server, dialVars, uiVars>>

(***************************************************************************)
(* Spec: the registry after Connections::new.  Every row of the persisted  *)
(* servers table has an entry Connecting(handle) whose dial thread runs.   *)
(***************************************************************************)
MaxPackets == 1

SpecPackets ==
    {[type |-> "MessageReceive",
      inner |-> [id |-> 1, channel |-> 1, timestamp |-> 1, text |-> "x"]],
     [type |-> "ChannelReceive"]}

\* Connections::new, with the caller threads idle
Registry(rows) ==
    /\ servers = [a \in rows |-> Connecting(a)]
    /\ dial = [a \in Addrs |-> [st |-> IF a \in rows THEN "running" ELSE "none"]]
    /\ lock = NoThread
    /\ pc = [t \in Threads |-> "idle"]
    /\ op = [t \in Threads |-> None]
    /\ arg = [t \in Threads |-> NoArg]
    /\ cur = [t \in Threads |-> None]
    /\ todo = [t \in Threads |-> {}]
    /\ calls = [t \in Threads |-> <<>>]
    /\ out = NoOut
    /\ now = 0
    /\ current_server = None

RegInit(rows, packets) ==
    /\ Registry(rows)
    /\ net = [left |-> MaxPackets, packets |-> packets]

Init ==
    /\ \E rows \in SUBSET Addrs :
        /\ store \in [rows -> {"tok1"}]
        /\ RegInit(rows, SpecPackets)
    /\ dargs = NoDial
    /\ dout = NoDial
    /\ MessagesNew
    /\ UiIdle

Next ==
    \/ \E a \in Addrs : DialFinish(a)
    \/ \E t \in Threads, a \in Addrs : ExecuteCall(t, a)
    \/ \E t \in Threads : ExecuteLock(t)
    \/ \E t \in Threads : ExecuteJoin(t)
    \/ \E t \in Threads : ForEachCall(t)
    \/ \E t \in Threads : ForEachLock(t)
    \/ \E t \in Threads : ForEachJoin(t)
    \/ \E t \in Threads, a \in Addrs : InsertCall(t, a, 1)
    \/ \E t \in Threads : InsertLock(t)
    \/ \E t \in Threads, a \in Addrs : RemoveCall(t, a)
    \/ \E t \in Threads : RemoveLock(t)
    \/ \E t \in Threads : TryReadCall(t)
    \/ \E t \in Threads : TryReadJoin(t)

Spec == Init /\ [][Next]_vars

(***************************************************************************)
(* FairSpec: the registry's operations called from two threads while the   *)
(* dials of Connections::new are in flight, on sessions that deliver no    *)
(* packet.  The scheduler runs every thread that can run, every dial       *)
(* finishes, and a thread waiting in lock() gets the Mutex if it is        *)
(* released again and again.                                               *)
(***************************************************************************)
FairInit ==
    /\ \E rows \in SUBSET Addrs :
        /\ store \in [rows -> {"tok1"}]
        /\ RegInit(rows, {})
    /\ dargs = NoDial
    /\ dout = NoDial
    /\ MessagesNew
    /\ UiIdle

Fairness ==
    /\ \A a \in Addrs : WF_vars(DialFinish(a))
    /\ \A t \in Threads :
        /\ WF_vars(ExecuteJoin(t) \/ ForEachJoin(t) \/ TryReadJoin(t))
        /\ SF_vars(ExecuteLock(t) \/ ForEachLock(t) \/ InsertLock(t) \/ RemoveLock(t))

FairSpec == FairInit /\ [][Next]_vars /\ Fairness

(***************************************************************************)
(* CurSpec: Spec together with the current-server selection: set_current   *)
(* called with any address or None, and the handlers of main.rs that run   *)
(* execute against the selected server.                                    *)
(***************************************************************************)
\* Connections::set_current (lines 153-155)
SetCurrent(a) ==
    /\ current_server' = a
    /\ out' = NoOut
    /\ UNCHANGED <<servers, lock, dial, pc, op, arg, cur, todo, calls, net, now,
                   dialVars, msgVars, uiVars>>

\* main.rs:347-348 (and 379, 425, 446, 574, 663): execute on the selected server
ExecuteCurrent(t) ==
    /\ current_server # None
    /\ ExecuteCall(t, current_server)

CurNext ==
    \/ Next
    \/ \E a \in Addrs \cup {None} : SetCurrent(a)
    \/ \E t \in Threads : ExecuteCurrent(t)

\* the sessions deliver packets that leave the session as it is
CurPackets == {[type |-> "ChannelReceive"]}

CurInit ==
    /\ \E rows \in SUBSET Addrs :
        /\ store \in [rows -> {"tok1"}]
        /\ RegInit(rows, CurPackets)
    /\ dargs = NoDial
    /\ dout = NoDial
    /\ MessagesNew
    /\ UiIdle

CurSpec == CurInit /\ [][CurNext]_vars

(***************************************************************************)
(* PollSpec: the main thread polling (main.rs:638-682 calls try_read from  *)
(* gtk::idle_add again and again) while the dials of Connections::new      *)
(* finish and the servers send packets of every kind try_read tells apart. *)
(* The local user of every session is user 1.                              *)
(***************************************************************************)
MaxPollPackets == 4

PollThread == "t1"

PollPackets ==
    {[type |-> "MessageReceive",
      inner |-> [id |-> i, channel |-> c, timestamp |-> 1, text |-> "x"]] :
        i \in MsgIds, c \in Channels}
      \cup {[type |-> "MessageDeleteReceive", id |-> i] : i \in MsgIds}
      \cup {[type |-> "TypingReceive", author |-> u, channel |-> 1] : u \in UserIds}
      \cup {[type |-> "ChannelReceive"]}

PollInit ==
    /\ \E rows \in SUBSET Addrs :
        /\ store \in [rows -> {"tok1"}]
        /\ Registry(rows)
    /\ net = [left |-> MaxPollPackets, packets |-> PollPackets]
    /\ dargs = NoDial
    /\ dout = NoDial
    /\ MessagesNew
    /\ UiIdle

PollNext ==
    \/ \E a \in Addrs : DialFinish(a)
    \/ TryReadCall(PollThread)
    \/ TryReadJoin(PollThread)

PollSpec == PollInit /\ [][PollNext]_vars

(***************************************************************************)
(* TypingSpec: the typing tracker of the current server's session while    *)
(* typing notifications of other users arrive, time passes and the poll    *)
(* cycle shows the summary for the current channel.                        *)
(***************************************************************************)
MaxTime == 4

CurrentChannel == 1

\* connections.rs:192-195: a TypingReceive of another user is polled
TypingReceive(author, channel) ==
    /\ tracker' = typing_insert(tracker, author, channel, now)
    /\ UNCHANGED <<label, now>>

\* time passes
Tick ==
    /\ now < MaxTime
    /\ now' = now + 1
    /\ UNCHANGED <<tracker, label>>

\* main.rs:663-671: the typing check at the end of a poll cycle
TypingShow ==
    /\ LET typing == typing_check(tracker, CurrentChannel, now)
       IN label' = IF typing # {} THEN [text |-> typing, seen |-> "some"]
                   ELSE [label EXCEPT !.seen = "none"]
    /\ UNCHANGED <<tracker, now>>

TypingInit ==
    /\ RegInit({}, {})
    /\ store = <<>>
    /\ dargs = NoDial
    /\ dout = NoDial
    /\ MessagesNew
    /\ UiIdle

TypingNext ==
    /\ \/ \E author \in UserIds, channel \in Channels : TypingReceive(author, channel)
       \/ Tick
       \/ TypingShow
    /\ UNCHANGED <<servers, lock, dial, pc, op, arg, cur, todo, calls, out, net,
                   dialVars, current_server, msgVars, sent, inbox, broken, iter>>

TypingSpec == TypingInit /\ [][TypingNext]_vars

(***************************************************************************)
(* SendSpec: the send-message handler (main.rs:440-483) on the main thread.*)
(* It runs execute on the selected server and sends inside the callback;   *)
(* on some send errors it calls connect(&app, addr, hash, token) of        *)
(* functions.rs from inside the callback, that is, while execute holds the *)
(* MutexGuard of servers.  functions.rs is not among the sources: the      *)
(* reconnection is a Dial followed, when it succeeds, by the registration  *)
(* of the new session in the map (Connections::insert).                    *)
(***************************************************************************)
\* What synac.session.send returns: Ok, an io::Error of kind BrokenPipe, an
\* io::Error of another kind, or an error that is no io::Error.
SendOutcomes == {"Ok", "BrokenPipe", "OtherIo", "NotIo"}

\* lines 464-468: the errors after which the handler does not return early
Reconnects(outcome) == outcome \in {"BrokenPipe", "NotIo"}

\* lines 441-447: the handler is activated with a text and a selected server
SendCall(t) ==
    /\ pc[t] = "idle"
    /\ current_server # None
    /\ pc' = [pc EXCEPT ![t] = "lock"]
    /\ op' = [op EXCEPT ![t] = "send"]
    /\ arg' = [arg EXCEPT ![t] = [addr |-> current_server, synac |-> NoSynac]]
    /\ out' = NoOut
    /\ sent' = NoSend
    /\ UNCHANGED <<servers, lock, dial, cur, todo, calls, net, now, dialVars,
                   current_server, msgVars, tracker, label, inbox, broken, iter>>

\* connections.rs:159-162 for the handler's execute
SendLock(t) ==
    /\ pc[t] = "lock" /\ op[t] = "send"
    /\ lock = NoThread
    /\ IF arg[t].addr \in DOMAIN servers
       THEN /\ lock' = t
            /\ pc' = [pc EXCEPT ![t] = "join"]
            /\ cur' = [cur EXCEPT ![t] = arg[t].addr]
            /\ out' = NoOut
            /\ UNCHANGED <<op, arg, todo, calls>>
       ELSE Return(t, "send", arg[t].addr, <<>>, Unit)
    /\ UNCHANGED <<servers, dial, net, now, dialVars, current_server, msgVars, uiVars>>

\* main.rs:448-470: the callback up to the decision to reconnect
SendJoin(t) ==
    /\ pc[t] = "join" /\ op[t] = "send"
    /\ CanJoin(servers[cur[t]])
    /\ LET a      == cur[t]
           joined == join(servers[a])
       IN /\ servers' = [servers EXCEPT ![a] = joined]
          /\ dial' = joined_dial(servers[a])
          /\ IF ~joined.result.ok \/ joined.result.synac.current_channel = NoChannel
             THEN /\ Return(t, "send", a, <<[addr |-> a, res |-> joined.result]>>, Unit)
                  /\ UNCHANGED sent
             ELSE \E outcome \in SendOutcomes :
                    IF Reconnects(outcome) /\ a \in DOMAIN store
                    THEN /\ sent' = [st |-> outcome, reconnect |-> TRUE]
                         /\ pc' = [pc EXCEPT ![t] = "reconnect"]
                         /\ out' = NoOut
                         /\ UNCHANGED <<lock, op, arg, cur, todo, calls>>
                    ELSE /\ sent' = [st |-> outcome, reconnect |-> FALSE]
                         /\ Return(t, "send", a, <<[addr |-> a, res |-> joined.result]>>,
                                   Unit)
    /\ UNCHANGED <<net, now, dialVars, current_server, msgVars,
                   tracker, label, inbox, broken, iter>>

\* main.rs:475, connect of functions.rs: the Dial with the saved token, and on
\* success the registration of the new session.  The registration takes the
\* Mutex of servers (servers.lock() in Connections::insert); Mutex::lock
\* called by the thread that holds the Mutex does not return: it blocks for
\* ever or it panics.
Reconnect(t) ==
    /\ pc[t] = "reconnect" /\ op[t] = "send"
    /\ \E r \in {connect(cur[t], store[cur[t]], None, env).result : env \in UnattendedEnv} :
         IF ~r.ok
         THEN /\ Return(t, "send", cur[t], calls[t], Unit)
              /\ UNCHANGED servers
         ELSE IF lock = NoThread
         THEN /\ servers' = [servers EXCEPT ![cur[t]] = Connected(r)]
              /\ Return(t, "send", cur[t], calls[t], Unit)
         ELSE /\ \E stuck \in {"deadlock", "panic"} : pc' = [pc EXCEPT ![t] = stuck]
              /\ out' = NoOut
              /\ UNCHANGED <<servers, lock, op, arg, cur, todo, calls>>
    /\ UNCHANGED <<dial, net, now, dialVars, current_server, msgVars, uiVars>>

\* Connections::new; no packets are polled
SendInit ==
    /\ \E rows \in SUBSET Addrs :
        /\ store \in [rows -> {"tok1"}]
        /\ Registry(rows)
    /\ net = [left |-> 0, packets |-> {}]
    /\ dargs = NoDial
    /\ dout = NoDial
    /\ MessagesNew
    /\ UiIdle

\* functions.rs selects the channel of a session (synac.current_channel)
SelectChannel(a, channel) ==
    /\ lock = NoThread
    /\ a \in DOMAIN servers
    /\ servers[a].kind = "Connected" /\ servers[a].result.ok
    /\ servers' = [servers EXCEPT ![a] =
                     Connected(Ok([@.result.synac EXCEPT !.current_channel = channel]))]
    /\ out' = NoOut
    /\ UNCHANGED <<lock, dial, pc, op, arg, cur, todo, calls, net, now, dialVars,
                   current_server, msgVars, uiVars>>

SendNext ==
    \/ \E a \in Addrs : DialFinish(a)
    \/ \E a \in Addrs \cup {None} : SetCurrent(a)
    \/ \E a \in Addrs, channel \in {NoChannel, 1} : SelectChannel(a, channel)
    \/ SendCall(PollThread)
    \/ SendLock(PollThread)
    \/ SendJoin(PollThread)
    \/ Reconnect(PollThread)

SendSpec == SendInit /\ [][SendNext]_vars

(***************************************************************************)
(* StarveSpec: the poll loop over authenticated sessions of which some     *)
(* fail every read.  values_mut() walks the HashMap in an order that is    *)
(* unspecified but the same in every call while the map is not modified:   *)
(* iter, chosen at the start.  The idle_add closure is run again and       *)
(* again (it returns Continue(true)), so a poll that can run does run.     *)
(***************************************************************************)
MaxInbox == 2

\* the permutations of the addresses
Orders == {o \in [1..Cardinality(Addrs) -> Addrs] : \A a \in Addrs : \E k \in DOMAIN o : o[k] = a}

\* the first entry in iteration order among those in rest
FirstOf(rest) ==
    iter[CHOOSE k \in DOMAIN iter : iter[k] \in rest
                                    /\ \A j \in 1..(k - 1) : iter[j] \notin rest]

\* the server of session a sends a packet
Arrive(a) ==
    /\ inbox[a] < MaxInbox
    /\ inbox' = [inbox EXCEPT ![a] = @ + 1]
    /\ out' = NoOut
    /\ UNCHANGED <<servers, lock, dial, pc, op, arg, cur, todo, calls, net, now, dialVars,
                   current_server, msgVars, tracker, label, sent, broken, iter>>

\* main.rs:645, connections.rs:179-180: try_read is called, takes the lock and starts at the
\* first entry
StarveCall(t) ==
    /\ pc[t] = "idle"
    /\ lock = NoThread
    /\ pc' = [pc EXCEPT ![t] = "join"]
    /\ op' = [op EXCEPT ![t] = "try_read"]
    /\ cur' = [cur EXCEPT ![t] = FirstOf(DOMAIN servers)]
    /\ todo' = [todo EXCEPT ![t] = DOMAIN servers \ {FirstOf(DOMAIN servers)}]
    /\ calls' = [calls EXCEPT ![t] = <<>>]
    /\ lock' = t
    /\ out' = NoOut
    /\ UNCHANGED <<servers, dial, arg, net, now, dialVars, current_server, msgVars, uiVars>>

\* on to the next entry in iteration order after the callbacks cs, or return Ok
StarveContinue(t, cs) ==
    IF todo[t] # {}
    THEN /\ cur' = [cur EXCEPT ![t] = FirstOf(todo[t])]
         /\ todo' = [todo EXCEPT ![t] = todo[t] \ {FirstOf(todo[t])}]
         /\ calls' = [calls EXCEPT ![t] = cs]
         /\ out' = NoOut
         /\ UNCHANGED <<lock, pc, op, arg>>
    ELSE Return(t, "try_read", None, cs, "Ok")

\* connections.rs:181-200 on the entry cur[t]: the read fails (`?` returns the
\* error), yields a waiting packet, or yields nothing
StarveRead(t) ==
    /\ pc[t] = "join" /\ op[t] = "try_read"
    /\ LET a == cur[t]
       IN IF a \in broken
          THEN /\ Return(t, "try_read", None, calls[t], "Err")
               /\ UNCHANGED inbox
          ELSE IF inbox[a] > 0
          THEN /\ inbox' = [inbox EXCEPT ![a] = @ - 1]
               /\ StarveContinue(t, Append(calls[t],
                        [addr |-> a, packet |-> [type |-> "ChannelReceive"],
                         channel |-> NoChannel]))
          ELSE /\ StarveContinue(t, calls[t])
               /\ UNCHANGED inbox
    /\ UNCHANGED <<servers, dial, net, now, dialVars, current_server, msgVars,
                   tracker, label, sent, broken, iter>>

\* every address has an authenticated session; at most one of them is broken
StarveInit ==
    /\ servers = [a \in Addrs |-> Connected(Ok(Synac_new(a, 1)))]
    /\ dial = [a \in Addrs |-> [st |-> "joined"]]
    /\ lock = NoThread
    /\ pc = [t \in Threads |-> "idle"]
    /\ op = [t \in Threads |-> None]
    /\ arg = [t \in Threads |-> NoArg]
    /\ cur = [t \in Threads |-> None]
    /\ todo = [t \in Threads |-> {}]
    /\ calls = [t \in Threads |-> <<>>]
    /\ out = NoOut
    /\ now = 0
    /\ current_server = None
    /\ net = [left |-> 0, packets |-> {}]
    /\ store = [a \in Addrs |-> "tok1"]
    /\ dargs = NoDial
    /\ dout = NoDial
    /\ MessagesNew
    /\ tracker = <<>>
    /\ label = NoLabel
    /\ sent = NoSend
    /\ inbox = [a \in Addrs |-> 0]
    /\ broken \in {b \in SUBSET Addrs : Cardinality(b) <= 1}
    /\ iter \in Orders

StarveNext ==
    \/ \E a \in Addrs : Arrive(a)
    \/ StarveCall(PollThread)
    \/ StarveRead(PollThread)

StarveFairness == WF_vars(StarveCall(PollThread)) /\ WF_vars(StarveRead(PollThread))

StarveSpec == StarveInit /\ [][StarveNext]_vars /\ StarveFairness

(***************************************************************************)
(* MsgSpec: every sequence of add and remove on one Messages store.        *)
(***************************************************************************)
MsgInit ==
    /\ MessagesNew
    /\ UiIdle
    /\ RegInit({}, {})
    /\ store = <<>>
    /\ dargs = NoDial
    /\ dout = NoDial

MsgNext ==
    \/ \E msg \in Messages : MsgAdd(msg)
    \/ \E id \in MsgIds : MsgRemove(id)

MsgSpec == MsgInit /\ [][MsgNext]_vars

DialInit ==
    /\ store \in [Addrs -> {None, "tok1"}]
    /\ dargs = NoDial
    /\ dout = NoDial
    /\ RegInit({}, {})
    /\ MessagesNew
    /\ UiIdle

DialNext ==
    /\ dout.st = "none"
    /\ \E addr \in Addrs, token \in {None, "tok1"}, password \in {None, "pw"}, env \in Env :
         DialCall(addr, token, password, env)

DialSpec == DialInit /\ [][DialNext]_vars

(***************************************************************************)
(* Registry: claims C1 - C7 (Spec, FairSpec)                               *)
(***************************************************************************)
\* The operation of thread t returned in the step that led to this state
Returned_(t, o) == out.op = o /\ out.thread = t

\* The entry of a holds, or will hold at its first join, a failed dial
FailedEntry(srv, dl, a) ==
    IF srv[a].kind = "Connected" THEN ~srv[a].result.ok
    ELSE IF dl[srv[a].handle].st = "finished" THEN ~dl[srv[a].handle].result.ok
    ELSE FALSE

\* The number of callback invocations of cs for address a
Invocations(cs, a) == Cardinality({i \in 1..Len(cs) : cs[i].addr = a})

\* C1 as claimed: PollIncoming (try_read) never blocks the calling thread: no
\* thread inside try_read ever waits for a background dial that has not
\* finished.
C1_PollNeverBlocks ==
    \A t \in Threads : op[t] = "try_read" => ~Blocked(t)

\* C2 as claimed: an address whose unattended dial failed is absent from the
\* map (no entry holds a failed dial), so Execute never invokes its callback
\* with a dial error.
C2_Original ==
    /\ \A a \in DOMAIN servers : ~FailedEntry(servers, dial, a)
    /\ out.op = "execute" => \A i \in 1..Len(out.calls) : out.calls[i].res.ok

\* C2 amended: when the unattended dial of a persisted server fails, the
\* address stays in the map as the entry Construct made; the failure stays
\* there until insert or remove replaces the entry, and Execute on that
\* address resolves the entry to Resolved(Err) and invokes its callback
\* exactly once, with the dial error.
C2_FailedDialStaysInMap ==
    [][/\ \A a \in Addrs :
            dial[a].st = "running" /\ dial'[a].st = "finished" /\ ~dial'[a].result.ok
            => a \in DOMAIN servers' /\ servers'[a] = Connecting(a)
       /\ \A a \in DOMAIN servers :
            FailedEntry(servers, dial, a)
            => \/ out'.op \in {"insert", "remove"} /\ out'.addr = a
               \/ a \in DOMAIN servers' /\ FailedEntry(servers', dial', a)
       /\ \A t \in Threads :
            /\ op[t] = "execute" /\ out'.op = "execute" /\ out'.thread = t
            /\ arg[t].addr \in DOMAIN servers
            /\ FailedEntry(servers, dial, arg[t].addr)
            => /\ servers'[arg[t].addr].kind = "Connected"
               /\ ~servers'[arg[t].addr].result.ok
               /\ out'.calls = <<[addr |-> arg[t].addr,
                                  res |-> servers'[arg[t].addr].result]>>
      ]_vars

C2_Witness ==
    out.op = "execute" /\ Len(out.calls) = 1 /\ ~out.calls[1].res.ok

\* A step in which the foreach of t is done with the entry it was at
ForEachVisit(t) ==
    op[t] = "foreach" /\ pc[t] = "join" /\ (pc'[t] = "idle" \/ cur'[t] # cur[t])

\* C3 as claimed: ForEach invokes the callback for an entry exactly when the
\* entry is already Resolved(Ok); a Pending entry is skipped without being
\* joined and stays Pending, a Resolved(Err) entry is skipped.
C3_Original ==
    [][\A t \in Threads :
         ForEachVisit(t) =>
           LET a     == cur[t]
               after == IF pc'[t] = "idle" THEN out'.calls ELSE calls'[t]
               ok    == IF servers[a].kind = "Connected" THEN servers[a].result.ok
                        ELSE FALSE
           IN /\ servers'[a] = servers[a]
              /\ after = IF ok THEN Append(calls[t], [addr |-> a, res |-> servers[a].result])
                         ELSE calls[t]
      ]_vars

\* C3 amended: ForEach joins every entry of the map, waiting for Pending
\* dials, so that every entry is Resolved when it returns; it invokes the
\* callback once, with the handle, for each address whose Connection is
\* Resolved(Ok) after the join and for no other address; Resolved(Err)
\* connections are skipped.
C3_ForEachJoinsAll ==
    out.op = "foreach" =>
        /\ \A a \in DOMAIN servers :
            /\ servers[a].kind = "Connected"
            /\ Invocations(out.calls, a) = IF servers[a].result.ok THEN 1 ELSE 0
        /\ \A i \in 1..Len(out.calls) :
            /\ out.calls[i].addr \in DOMAIN servers
            /\ out.calls[i].res = servers[out.calls[i].addr].result

C3_Witness ==
    /\ out.op = "foreach" /\ Len(out.calls) = 1
    /\ \E a \in DOMAIN servers : ~servers[a].result.ok
    /\ dial[out.calls[1].addr].st = "joined"

\* C4: a Connection only goes from Pending to Resolved, with the result of its
\* dial and by a join of the thread that holds the map lock; a Resolved
\* Connection stays Resolved with the same Ok/Err outcome (and the same error)
\* under join, Execute, ForEach and PollIncoming, and an Execute that joins it
\* again gets the same result and changes nothing.  (insert and remove put
\* another Connection value in the entry's place.)
C4_ResolvedIsTerminal ==
    [][\A a \in DOMAIN servers :
         ~(out'.op \in {"insert", "remove"} /\ out'.addr = a) =>
           /\ a \in DOMAIN servers'
           /\ IF servers[a].kind = "Connected"
              THEN /\ servers'[a].kind = "Connected"
                   /\ servers'[a].result.ok = servers[a].result.ok
                   /\ ~servers[a].result.ok => servers'[a] = servers[a]
                   /\ out'.op = "execute" /\ out'.addr = a =>
                        /\ servers'[a] = servers[a]
                        /\ out'.calls = <<[addr |-> a, res |-> servers[a].result]>>
              ELSE \/ servers'[a] = servers[a]
                   \/ /\ dial[servers[a].handle].st = "finished"
                      /\ \E t \in Threads : lock = t /\ pc[t] = "join" /\ cur[t] = a
                      /\ servers'[a].kind = "Connected"
                      /\ servers'[a].result.ok = dial[servers[a].handle].result.ok
                      /\ ~servers'[a].result.ok =>
                           servers'[a].result = dial[servers[a].handle].result
      ]_vars

C4_Witness ==
    /\ out.op = "foreach" /\ Len(out.calls) = 2
    /\ net.left = 0

\* C5: concurrent Execute and PollIncoming calls (and the other operations)
\* never deadlock: provided every dial eventually finishes, every call
\* eventually returns.
C5_CallsReturn ==
    \A t \in Threads : (pc[t] # "idle") ~> (pc[t] = "idle")

C5_Witness ==
    \E t, u \in Threads :
        /\ op[t] = "try_read" /\ Blocked(t)
        /\ op[u] = "execute" /\ pc[u] = "lock"

\* C6: when the map lock is held by another thread, PollIncoming does not
\* wait: it returns Ok at once, having invoked no callback and changed no
\* connection, session state, lock or dial.
C6_ContendedPollReturns ==
    /\ [](\A t \in Threads : pc[t] = "idle" /\ lock # NoThread => ENABLED TryReadCall(t))
    /\ [][\A t \in Threads :
            pc[t] = "idle" /\ lock # NoThread /\ out'.op = "try_read" /\ out'.thread = t
            => /\ out'.ret = "Ok" /\ out'.calls = <<>>
               /\ UNCHANGED <<servers, lock, dial, pc, op, arg, cur, todo, calls, net,
                              now, store>>
         ]_vars

C6_Witness ==
    \E t \in Threads : Returned_(t, "try_read") /\ lock \notin {NoThread, t}

\* C7: Execute on an address that is not a key invokes no callback and changes
\* nothing; on a key it resolves the Connection (joining a pending dial, whose
\* result it takes) and invokes the callback exactly once, with the Session
\* Handle if the dial succeeded and with the dial error if it failed.
C7_Execute ==
    [][\A t \in Threads :
         op[t] = "execute" /\ out'.op = "execute" /\ out'.thread = t =>
           LET a == arg[t].addr
           IN IF a \in DOMAIN servers
              THEN /\ a \in DOMAIN servers' /\ servers'[a].kind = "Connected"
                   /\ servers'[a].result =
                        IF servers[a].kind = "Connected" THEN servers[a].result
                        ELSE dial[servers[a].handle].result
                   /\ out'.calls = <<[addr |-> a, res |-> servers'[a].result]>>
                   /\ \A b \in DOMAIN servers \ {a} :
                        b \in DOMAIN servers' /\ servers'[b] = servers[b]
              ELSE /\ out'.calls = <<>>
                   /\ UNCHANGED <<servers, dial, net, now, store>>
      ]_vars

C7_Witness ==
    /\ out.op = "execute" /\ Len(out.calls) = 1 /\ out.calls[1].res.ok
    /\ dial[out.addr].st = "joined"

(***************************************************************************)
(* Dial: claims C8 - C10 (DialSpec)                                        *)
(***************************************************************************)
Called == dout.st = "returned"

\* The session was established and the server answered the token login
TokenAnswer(resp) ==
    /\ dargs.token # None
    /\ dargs.env.new = "ok" /\ dargs.env.tokSend = "ok"
    /\ dargs.env.tokResp \in resp

\* The password login was sent and the server answered it
PasswordAnswer(resp) ==
    /\ dargs.password # None
    /\ dargs.env.pwSend = "ok"
    /\ dargs.env.pwResp \in resp

TokenRejected == TokenAnswer({"ErrUnknownUser", "ErrLoginInvalid"})

\* C8 as claimed: a Dial whose token the server accepts returns an
\* authenticated Session Handle, never calls the password provider and
\* writes nothing to storage.
C8_Original ==
    Called /\ TokenAnswer({"LoginSuccess"}) =>
        /\ dout.result.ok
        /\ dout.asked = 0
        /\ dout.writes = <<>> /\ store = dargs.before

\* C8 amended: a Dial whose token the server accepts never calls the password
\* provider and writes nothing to storage; it returns an authenticated Session
\* Handle for the address and the login's user id unless set_nonblocking fails,
\* and then it returns that transport error.
C8_TokenAccepted ==
    Called /\ TokenAnswer({"LoginSuccess"}) =>
        /\ dout.asked = 0
        /\ dout.writes = <<>> /\ store = dargs.before
        /\ dout.result = IF dargs.env.tokNb = "ok"
                         THEN Ok(Synac_new(dargs.addr, dargs.env.id))
                         ELSE Err("Io")

C8_Witness ==
    Called /\ TokenAnswer({"LoginSuccess"}) /\ dout.result.ok /\ dargs.password # None

\* C9 as claimed: a Dial whose token the server rejects (unknown user or
\* invalid login) and whose password the server accepts falls through to the
\* password login, returns an authenticated Session Handle and writes the
\* newly issued token to storage for that address exactly once.
C9_Original ==
    Called /\ TokenRejected /\ PasswordAnswer({"LoginSuccess"}) =>
        /\ dout.asked = 1
        /\ dout.result.ok
        /\ dout.writes = <<dargs.env.issued>>
        /\ store = [dargs.before EXCEPT ![dargs.addr] = dargs.env.issued]

\* C9 amended: such a Dial falls through to the password login (the provider
\* is called once) and writes the newly issued token to the row of that address
\* exactly once, leaving the other rows alone; it returns an authenticated
\* Session Handle unless set_nonblocking fails after the write, and then it
\* returns that transport error.
C9_PasswordFallback ==
    Called /\ TokenRejected /\ PasswordAnswer({"LoginSuccess"}) =>
        /\ dout.asked = 1
        /\ dout.writes = <<dargs.env.issued>>
        /\ store = [dargs.before EXCEPT ![dargs.addr] = dargs.env.issued]
        /\ dout.result = IF dargs.env.pwNb = "ok"
                         THEN Ok(Synac_new(dargs.addr, dargs.env.id))
                         ELSE Err("Io")

C9_Witness ==
    /\ Called /\ TokenRejected /\ PasswordAnswer({"LoginSuccess"})
    /\ dout.result.ok
    /\ store[dargs.addr] # dargs.before[dargs.addr]

\* Neither login path is attempted on an established session
NoCredential ==
    dargs.env.new = "ok" /\ dargs.token = None /\ dargs.password = None

\* C10 as claimed: the Dial fails with "no usable credential" (InvalidToken)
\* whenever neither login path is attempted, or the token is rejected by the
\* server and then the password is rejected by the server.
C10_Original ==
    Called /\ (NoCredential \/ (TokenRejected /\ PasswordAnswer({"ErrLoginInvalid"}))) =>
        dout.result = Err("InvalidToken")

\* C10 amended: on an established session the Dial fails with InvalidToken
\* ("no usable credential") when no password is supplied and either no token
\* is supplied or the server rejects the token (unknown user, invalid login);
\* when the server rejects the password with invalid login, after a rejected
\* token or with no token, the Dial fails with InvalidPassword instead.
C10_NoUsableCredential ==
    Called =>
        /\ NoCredential \/ (TokenRejected /\ dargs.password = None) =>
              dout.result = Err("InvalidToken")
        /\ /\ dargs.env.new = "ok"
           /\ dargs.token = None \/ TokenRejected
           /\ PasswordAnswer({"ErrLoginInvalid"})
           => dout.result = Err("InvalidPassword")

C10_Witness ==
    /\ Called /\ TokenRejected /\ PasswordAnswer({"ErrLoginInvalid"})
    /\ dout.result = Err("InvalidPassword")

(***************************************************************************)
(* The Message Store (MsgSpec).  mout.before is the store the operation of *)
(* the last step was called on, msgs the store it left.                    *)
(***************************************************************************)
Sorted(tl) == \A i, j \in 1..Len(tl) : i < j => tl[i].timestamp <= tl[j].timestamp

\* C13: add of a message whose id and timestamp are those of an entry of the
\* channel's timeline leaves the timeline as long as it was, with the entry at
\* the same position now holding the message just added (its content replaced).
C13_IdempotentUpsert ==
    mout.op = "add" =>
        LET tl    == Timeline(mout.before, mout.msg.channel)
            after == Timeline(msgs, mout.msg.channel)
        IN \A k \in 1..Len(tl) :
              tl[k].id = mout.msg.id /\ tl[k].timestamp = mout.msg.timestamp
              => /\ Len(after) = Len(tl)
                 /\ after = [tl EXCEPT ![k] = mout.msg]

\* a re-delivery with new content hit an entry that is not the first of a
\* timeline of three or more
C13_Witness ==
    /\ mout.op = "add"
    /\ LET tl == Timeline(mout.before, mout.msg.channel)
       IN /\ Len(tl) >= 3
          /\ \E k \in 2..Len(tl) :
                /\ tl[k].id = mout.msg.id /\ tl[k].timestamp = mout.msg.timestamp
                /\ tl[k].text # mout.msg.text
                /\ tl[k - 1].timestamp = mout.msg.timestamp

\* C14: after any sequence of add and remove every channel's timeline is
\* sorted by timestamp, non-decreasing.
C14_SortedByTimestamp == \A c \in DOMAIN msgs : Sorted(msgs[c])

\* a message older than the newest entry was added to a timeline of two or
\* more and went in before the end
C14_Witness ==
    /\ mout.op = "add"
    /\ LET tl    == Timeline(mout.before, mout.msg.channel)
           after == Timeline(msgs, mout.msg.channel)
       IN /\ Len(tl) >= 2
          /\ Len(after) = Len(tl) + 1
          /\ mout.msg.timestamp < tl[Len(tl)].timestamp
          /\ after[Len(after)] # mout.msg

\* C15: no timeline ever holds two entries with the same id, whatever the
\* timestamps the id was added with.
C15_DedupById ==
    \A c \in DOMAIN msgs :
        \A i, j \in 1..Len(msgs[c]) : i # j => msgs[c][i].id # msgs[c][j].id

\* the place of id in the order of first insertion
Rank(ids, id) == CHOOSE k \in 1..Len(ids) : ids[k] = id

\* C16: entries of one timeline with the same timestamp and distinct ids stand
\* in the order in which their ids first came into the timeline, and an add
\* that replaces an entry leaves the replacement at the entry's position.
C16_TieOrder ==
    /\ \A c \in DOMAIN msgs :
          \A i, j \in 1..Len(msgs[c]) :
              /\ i < j
              /\ msgs[c][i].timestamp = msgs[c][j].timestamp
              /\ msgs[c][i].id # msgs[c][j].id
              => Rank(order[c], msgs[c][i].id) < Rank(order[c], msgs[c][j].id)
    /\ mout.op = "add" =>
          LET tl    == Timeline(mout.before, mout.msg.channel)
              after == Timeline(msgs, mout.msg.channel)
          IN Len(after) = Len(tl) =>
                \E k \in 1..Len(tl) : /\ tl[k].id = mout.msg.id
                                        /\ after = [tl EXCEPT ![k] = mout.msg]

\* the timeline tl without its k-th entry
Dropped(tl, k) == SubSeq(tl, 1, k - 1) \o SubSeq(tl, k + 1, Len(tl))

\* C17 as stated: remove(id) returns the channel C whenever C's timeline holds
\* id, takes exactly one entry with that id out of C's timeline and leaves the
\* other timelines as they were; with id in no timeline it returns None and
\* changes nothing.
C17_Original ==
    mout.op = "remove" =>
        LET b == mout.before
        IN /\ \A c \in DOMAIN b :
                HasId(b[c], mout.id)
                => /\ mout.ret = c
                   /\ \E k \in 1..Len(b[c]) : /\ b[c][k].id = mout.id
                                                 /\ msgs[c] = Dropped(b[c], k)
                   /\ DOMAIN msgs = DOMAIN b
                   /\ \A x \in DOMAIN b \ {c} : msgs[x] = b[x]
           /\ (\A c \in DOMAIN b : ~HasId(b[c], mout.id))
                => mout.ret = NoChannel /\ msgs = b

\* C17: remove(id) returns a channel C whose timeline holds id (any of them
\* when several do), takes the first entry with that id out of C's timeline,
\* the other entries keeping their order, and leaves the other timelines as
\* they were; with id in no timeline it returns None and changes nothing.
C17_RemoveOne ==
    mout.op = "remove" =>
        LET b == mout.before
            c == mout.ret
        IN IF \E x \in DOMAIN b : HasId(b[x], mout.id)
           THEN /\ c \in DOMAIN b
                /\ HasId(b[c], mout.id)
                /\ \E k \in 1..Len(b[c]) :
                      /\ b[c][k].id = mout.id
                      /\ \A j \in 1..(k - 1) : b[c][j].id # mout.id
                      /\ msgs[c] = Dropped(b[c], k)
                /\ DOMAIN msgs = DOMAIN b
                /\ \A x \in DOMAIN b \ {c} : msgs[x] = b[x]
           ELSE c = NoChannel /\ msgs = b

\* the id was in both channels, and not at the head of the timeline it was
\* taken from
C17_Witness ==
    /\ mout.op = "remove"
    /\ mout.ret # NoChannel
    /\ \A c \in Channels : HasId(Timeline(mout.before, c), mout.id)
    /\ mout.before[mout.ret][1].id # mout.id

\* C18: get returns the empty sequence for a channel add was never called for
\* and the channel's timeline otherwise; has is true exactly for the channels
\* add was called for, also when remove has emptied the timeline since.
C18_GetHas ==
    \A c \in Channels :
        /\ has(msgs, c) <=> c \in inserted
        /\ c \notin inserted => get(msgs, c) = <<>>
        /\ c \in inserted => get(msgs, c) = msgs[c]

\* remove has emptied the timeline of one channel; the other never got a message
C18_Witness ==
    /\ mout.op = "remove"
    /\ \E c \in inserted : mout.ret = c /\ msgs[c] = <<>> /\ has(msgs, c)
    /\ \E c \in Channels \ inserted : ~has(msgs, c)

(***************************************************************************)
(* PollIncoming (PollSpec)                                                 *)
(***************************************************************************)
\* The callback invocations of t's operation after a step: those the operation
\* returned with, or those made so far.
CallsAfter(t) == IF out'.op # None /\ out'.thread = t THEN out'.calls ELSE calls'[t]

\* What the claim says of a packet p read on a session: the channel ch handed
\* to the callback and the session after, given the session before.
Affected(before, p, after, ch) ==
    IF p.type = "MessageReceive"
    THEN /\ ch = p.inner.channel
         /\ has(after.messages, ch)
         /\ \E k \in 1..Len(after.messages[ch]) : after.messages[ch][k] = p.inner
         /\ after.typing = before.typing
    ELSE IF p.type = "MessageDeleteReceive"
    THEN IF \E c \in DOMAIN before.messages : HasId(before.messages[c], p.id)
         THEN /\ ch \in DOMAIN before.messages
              /\ HasId(before.messages[ch], p.id)
              /\ Len(after.messages[ch]) = Len(before.messages[ch]) - 1
              /\ after.typing = before.typing
         ELSE ch = NoChannel /\ after = before
    ELSE IF p.type = "TypingReceive" /\ p.author # before.user
    THEN /\ ch = p.channel
         /\ p.author \in DOMAIN after.typing
         /\ after.typing[p.author].channel = p.channel
         /\ after.messages = before.messages
    ELSE ch = NoChannel /\ after = before

\* C11: a step of try_read that reads a packet on a session invokes the
\* callback exactly once more, with the address, that packet and the affected
\* channel: the message's channel for a received message, which is then in the
\* store; the channel the message was removed from for a delete of a stored
\* id, none when the id was not stored; the event's channel for typing by
\* another user, which is then in the typing tracker; none, with the session
\* untouched, for any other packet and for typing by the local user.  A step
\* that reads no packet invokes no callback.
C11_CallbackPerPacket ==
    [][\A t \in Threads :
          pc[t] = "join" /\ op[t] = "try_read"
          => IF net'.left = net.left - 1
             THEN \E p \in net.packets, ch \in Channels \cup {NoChannel} :
                    /\ CallsAfter(t) = Append(calls[t],
                                              [addr |-> cur[t], packet |-> p, channel |-> ch])
                    /\ Affected(join(servers[cur[t]]).result.synac, p,
                                servers'[cur[t]].result.synac, ch)
             ELSE CallsAfter(t) = calls[t]
      ]_vars

\* a poll has returned after a callback for a delete of a stored message on one
\* session and one for typing by another user on the other
C11_Witness ==
    /\ out.op = "try_read"
    /\ \E i \in 1..Len(out.calls) :
          out.calls[i].packet.type = "MessageDeleteReceive" /\ out.calls[i].channel # NoChannel
    /\ \E i \in 1..Len(out.calls) :
          /\ out.calls[i].packet.type = "TypingReceive"
          /\ out.calls[i].channel # NoChannel

\* C12: when try_read returns a transport error the map has the keys it had,
\* the session whose read failed is still there as Connected(Ok) with the
\* handle it had, the other entries are as they were before the failing read,
\* and the callbacks already made are those the caller has seen; no step of a
\* poll adds or removes a key.
C12_ReadErrorKeepsMap ==
    [][\A t \in Threads :
          pc[t] = "join" /\ op[t] = "try_read"
          => /\ DOMAIN servers' = DOMAIN servers
             /\ out'.op = "try_read" /\ out'.thread = t /\ out'.ret = "Err"
                => /\ servers'[cur[t]] = join(servers[cur[t]])
                   /\ servers'[cur[t]].kind = "Connected"
                   /\ servers'[cur[t]].result.ok
                   /\ \A a \in DOMAIN servers \ {cur[t]} : servers'[a] = servers[a]
                   /\ out'.calls = calls[t]
      ]_vars

\* a poll over two sessions has returned the error of the second after the
\* callback for a packet of the first
C12_Witness ==
    /\ out.op = "try_read" /\ out.ret = "Err"
    /\ Len(out.calls) = 1
    /\ \A a \in Addrs : a \in DOMAIN servers /\ servers[a].kind = "Connected"
                          /\ servers[a].result.ok

(***************************************************************************)
(* Registry Insert and Remove (Spec, CurSpec)                              *)
(***************************************************************************)
\* C19: insert(addr, handle) is one step taken with the map's Mutex free: it
\* leaves the address mapped to Connected(Ok(handle)) whatever entry it had,
\* adds no other key and changes no other entry; execute on an address whose
\* entry is Connected never waits, even while an earlier dial of the address
\* is still running, and calls back with the handle of the entry.
C19_InsertReplaces ==
    /\ [][\A t \in Threads :
            pc[t] = "lock" /\ op[t] = "insert" /\ out'.op = "insert" /\ out'.thread = t
            => /\ lock = NoThread
               /\ DOMAIN servers' = DOMAIN servers \cup {arg[t].addr}
               /\ servers'[arg[t].addr] = Connected(Ok(arg[t].synac))
               /\ \A a \in DOMAIN servers \ {arg[t].addr} : servers'[a] = servers[a]
        ]_vars
    /\ [](\A t \in Threads :
            pc[t] = "join" /\ op[t] = "execute" /\ servers[cur[t]].kind = "Connected"
            => ENABLED ExecuteJoin(t))
    /\ [][\A t \in Threads :
            /\ pc[t] = "join" /\ op[t] = "execute" /\ servers[cur[t]].kind = "Connected"
            /\ out'.op = "execute" /\ out'.thread = t
            => out'.calls = <<[addr |-> arg[t].addr, res |-> servers[arg[t].addr].result]>>
        ]_vars

\* execute has called back with the inserted handle of an address whose dial
\* from Connections::new is still running
C19_Witness ==
    /\ out.op = "execute"
    /\ Len(out.calls) = 1
    /\ out.calls[1].res.ok
    /\ dial[out.addr].st = "detached"

\* C20: remove(addr) is one step that needs only the map's Mutex: it takes the
\* address out of the map, leaves the other entries and the current-server
\* selection as they were, and a dial of the address that is still running
\* runs on to its end; no operation ever calls back for an address that is
\* not a key of the map; execute on an address that is not a key returns ()
\* with no callback and changes nothing, also when the address is the selected
\* server.
C20_RemoveEvicts ==
    /\ [][\A t \in Threads :
            pc[t] = "lock" /\ op[t] = "remove" /\ out'.op = "remove" /\ out'.thread = t
            => /\ servers' = [a \in DOMAIN servers \ {arg[t].addr} |-> servers[a]]
               /\ current_server' = current_server
               /\ dial[arg[t].addr].st = "running" => dial'[arg[t].addr].st = "detached"
        ]_vars
    /\ [](\A t \in Threads :
            pc[t] = "lock" /\ op[t] = "remove" /\ lock = NoThread => ENABLED RemoveLock(t))
    /\ [](\A a \in Addrs : dial[a].st = "detached" => ENABLED DialFinish(a))
    /\ [][\A t \in Threads :
            Len(CallsAfter(t)) > Len(calls[t])
            => /\ CallsAfter(t)[Len(CallsAfter(t))].addr \in DOMAIN servers
               /\ CallsAfter(t)[Len(CallsAfter(t))].addr \in DOMAIN servers'
        ]_vars
    /\ [][\A t \in Threads :
            /\ pc[t] = "lock" /\ op[t] = "execute" /\ arg[t].addr \notin DOMAIN servers
            /\ out'.op = "execute" /\ out'.thread = t
            => /\ out'.ret = Unit /\ out'.calls = <<>>
               /\ UNCHANGED <<servers, dial, current_server>>
        ]_vars

\* execute on the selected server has returned without a callback: the server
\* was removed while its dial was running, and is still the selected one
C20_Witness ==
    /\ out.op = "execute"
    /\ out.addr = current_server
    /\ out.addr \notin DOMAIN servers
    /\ dial[out.addr].st = "detached"
    /\ out.calls = <<>> /\ out.ret = Unit

(***************************************************************************)
(* More on the Message Store (MsgSpec) and on Dial (DialSpec)              *)
(***************************************************************************)
\* the entries of tl with timestamp ts
Run(tl, ts) == {k \in 1..Len(tl) : tl[k].timestamp = ts}

\* the last entry of the run of ts in tl
RunEnd(tl, ts) == CHOOSE k \in Run(tl, ts) : \A j \in Run(tl, ts) : j <= k

\* add was called with a message whose timestamp some entries of the channel
\* have, none of them with the message's id
NewInRun ==
    /\ mout.op = "add"
    /\ LET tl == Timeline(mout.before, mout.msg.channel)
       IN /\ Run(tl, mout.msg.timestamp) # {}
          /\ \A k \in Run(tl, mout.msg.timestamp) : tl[k].id # mout.msg.id

\* C22 as stated: such an add puts the message right after the run: the
\* timeline is one longer and every entry it had is still there, unchanged.
C22_Original ==
    NewInRun =>
        LET tl == Timeline(mout.before, mout.msg.channel)
        IN Timeline(msgs, mout.msg.channel)
             = vec_insert(tl, RunEnd(tl, mout.msg.timestamp), mout.msg)

\* C22: such an add puts the message right after the run, the timeline one
\* longer and its entries unchanged, unless the entry right after the run has
\* the message's id: then the message overwrites that entry and the timeline
\* keeps its length.
C22_AfterRun ==
    NewInRun =>
        LET tl  == Timeline(mout.before, mout.msg.channel)
            end == RunEnd(tl, mout.msg.timestamp)
        IN Timeline(msgs, mout.msg.channel)
             = IF end < Len(tl) /\ tl[end + 1].id = mout.msg.id
               THEN [tl EXCEPT ![end + 1] = mout.msg]
               ELSE vec_insert(tl, end, mout.msg)

\* the message went in after the run, in front of a later entry
C22_Witness ==
    /\ NewInRun
    /\ LET tl == Timeline(mout.before, mout.msg.channel)
       IN /\ RunEnd(tl, mout.msg.timestamp) < Len(tl)
          /\ Len(Timeline(msgs, mout.msg.channel)) = Len(tl) + 1

\* C25: a Dial that returns a failure has written nothing to storage.
C25_FailedDialWritesNothing ==
    Called /\ ~dout.result.ok => dout.writes = <<>> /\ store = dargs.before

(***************************************************************************)
(* Exclusive access to the Session Handles (Spec)                          *)
(***************************************************************************)
\* C28: a thread that is at an entry of the map (about to join it, read from
\* it or hand it to a callback) owns the map's Mutex, so at most one thread is;
\* an entry changes only in a step of the thread that owns the Mutex; every
\* callback is invoked by the owner of the Mutex; the handle of a dial becomes
\* visible as Connected only after the dial thread has finished, and no
\* Connected entry has its dial thread still running behind it.
C28_ExclusiveAccess ==
    /\ [](\A t \in Threads : pc[t] = "join" => lock = t)
    /\ [](\A a \in Addrs :
            dial[a].st = "running" => a \in DOMAIN servers /\ servers[a].kind = "Connecting")
    /\ [][\A a \in DOMAIN servers \cap DOMAIN servers' :
            servers'[a] # servers[a]
            => \/ lock \in Threads /\ pc[lock] = "join" /\ cur[lock] = a
               \/ lock = NoThread /\ out'.op = "insert" /\ out'.addr = a
        ]_vars
    /\ [][\A t \in Threads : Len(CallsAfter(t)) > Len(calls[t]) => lock = t]_vars
    /\ [][\A a \in DOMAIN servers \cap DOMAIN servers' :
            /\ servers[a].kind = "Connecting" /\ servers'[a].kind = "Connected"
            /\ out'.op # "insert"
            => dial[servers[a].handle].st = "finished"
        ]_vars

\* a poll that has dispatched a packet of one session is at the other, whose
\* dial is still running, while the other thread waits for the Mutex in execute
C28_Witness ==
    \E t, u \in Threads :
        /\ pc[t] = "join" /\ op[t] = "try_read" /\ calls[t] # <<>>
        /\ servers[cur[t]].kind = "Connecting" /\ dial[cur[t]].st = "running"
        /\ pc[u] = "lock" /\ op[u] = "execute"

(***************************************************************************)
(* The Typing Tracker and its summary on display (TypingSpec)              *)
(***************************************************************************)
\* C21: a user with a typing entry for a channel is reported by check for that
\* channel while the entry is younger than the timeout, and is not reported
\* once the entry is as old as the timeout, the entry still being in the
\* tracker (nothing removed it).
C21_TypingExpires ==
    \A u \in DOMAIN tracker :
        LET c == tracker[u].channel
        IN /\ now - tracker[u].time < TypingTimeout
                => u \in typing_check(tracker, c, now)
           /\ now - tracker[u].time >= TypingTimeout
                => \A x \in Channels : u \notin typing_check(tracker, x, now)

\* one user's entry has expired while the other's, for the same channel, is
\* still live
C21_Witness ==
    \E u, v \in DOMAIN tracker :
        /\ tracker[u].channel = tracker[v].channel
        /\ now - tracker[u].time >= TypingTimeout
        /\ now - tracker[v].time < TypingTimeout
        /\ typing_check(tracker, tracker[u].channel, now) = {v}

\* C27: when the typing check of the poll cycle has returned None for the
\* current channel, the typing summary on display is empty.
C27_SummaryCleared ==
    label.seen = "none" => label.text = {}

(***************************************************************************)
(* The send-message handler (SendSpec)                                     *)
(***************************************************************************)
\* C23: a reconnection started inside the callback of execute never leaves the
\* thread waiting for, or panicking on, the Mutex of the map that its own
\* execute holds.
C23_ReconnectCompletes ==
    \A t \in Threads : pc[t] \notin {"deadlock", "panic"}

\* C26: the handler starts a reconnection only after a send that failed with
\* an io::Error of kind BrokenPipe.
C26_ReconnectOnlyOnBrokenPipe ==
    sent.st # "none" /\ sent.reconnect => sent.st = "BrokenPipe"

(***************************************************************************)
(* Polling beside a broken session (StarveSpec)                            *)
(***************************************************************************)
\* a poll has invoked the callback for a packet of session a
Dispatched(a) ==
    \/ \E t \in Threads : \E i \in 1..Len(calls[t]) : calls[t][i].addr = a
    \/ out.op = "try_read" /\ \E i \in 1..Len(out.calls) : out.calls[i].addr = a

\* C24: whichever session is broken, a packet waiting on a session that is
\* not broken is eventually read and handed to the callback by the polls.
C24_NoStarvation ==
    \A a \in Addrs : (a \notin broken /\ inbox[a] > 0) ~> Dispatched(a)

====
